---------------------------- MODULE Spec2Model ----------------------------
(***************************************************************************)
(* Model of src/index.js: the doctor-chat HTTP service.                    *)
(*                                                                         *)
(* Process-wide state: the credential pool API_KEYS with its cursor        *)
(* currentApiKeyIndex, the response cache responseCache, and the wall      *)
(* clock.  handleDoctorChat runs synchronously up to its first await (the  *)
(* external call), so a request is one step on arrival and one step per    *)
(* resumption; several handlers may be suspended at once.                  *)
(*                                                                         *)
(* JavaScript values are records [t |-> type, v |-> payload]; strings are  *)
(* sequences of one-character strings, so length, trim and lower-casing    *)
(* are computed and not assumed.                                           *)
(***************************************************************************)
EXTENDS Integers, Sequences, FiniteSets, TLC

VARIABLES
    API_KEYS,            \* the credential pool, in order (index.js:37)
    currentApiKeyIndex,  \* the cursor (index.js:43); NaN once poisoned
    responseCache,       \* Map: cache key -> [data, timestamp] (index.js:52)
    now,                 \* Date.now(), in milliseconds
    handlers,            \* suspended handleDoctorChat activations, by slot
    lastResp,            \* observer: the last completed chat response
    issued,              \* observer: credentials handed out since cursor 0
    lastWrite,           \* observer: who last assigned the cursor
    lastStore            \* observer: the last call of setCache, and by whom

vars == <<API_KEYS, currentApiKeyIndex, responseCache, now, handlers,
          lastResp, issued, lastWrite, lastStore>>

-----------------------------------------------------------------------------
(* Bounds of the model *)

MaxInitPool == 2     \* longest credential list configured at startup
MaxRequests == 3     \* chat requests that arrive in one behaviour
MaxChunks == 2       \* chunks one upstream stream delivers
MaxTime == 300001    \* the clock stops advancing here

(* Program constants *)

CACHE_TTL == 5 * 60 * 1000
MAX_MESSAGE_LENGTH == 5000
HISTORY_LIMIT == 20
CACHE_KEY_HISTORY == 5
NaN == -1            \* stands for the IEEE NaN that x % 0 yields

-----------------------------------------------------------------------------
(* JavaScript values *)

Str(s) == [t |-> "string", v |-> s]
Undefined == [t |-> "undefined", v |-> <<>>]
Num(d) == [t |-> "number", v |-> <<d>>]

\* JavaScript truthiness
Truthy(x) ==
    CASE x.t = "string" -> x.v # <<>>
      [] x.t = "number" -> x.v # <<"0">>
      [] x.t \in {"undefined", "null"} -> FALSE
      [] OTHER -> TRUE

\* Array.prototype.slice(-n)
SliceLast(s, n) ==
    IF Len(s) <= n THEN s ELSE SubSeq(s, Len(s) - n + 1, Len(s))

\* the string of n copies of c
Repeat(c, n) == [i \in 1..n |-> c]

\* String.prototype.trim on a character sequence
RECURSIVE TrimLeft(_)
TrimLeft(s) ==
    IF s # <<>> /\ Head(s) = " " THEN TrimLeft(Tail(s)) ELSE s

RECURSIVE TrimRight(_)
TrimRight(s) ==
    IF s # <<>> /\ s[Len(s)] = " " THEN TrimRight(SubSeq(s, 1, Len(s) - 1))
    ELSE s

Trim(s) == TrimRight(TrimLeft(s))

-----------------------------------------------------------------------------
(* The key rotator *)

UndefinedKey == "undefined"

\* API_KEYS[currentApiKeyIndex]
KeyAt(keys, idx) ==
    IF idx >= 0 /\ idx < Len(keys) THEN keys[idx + 1] ELSE UndefinedKey

\* variant: the cursor is left where it was read
NextIndexStays(keys, idx) ==
    IF idx = NaN \/ Len(keys) = 0 THEN NaN ELSE idx

\* variant: the cursor advances without wrapping
NextIndexNoWrap(keys, idx) ==
    IF idx = NaN \/ Len(keys) = 0 THEN NaN ELSE idx + 1

\* (currentApiKeyIndex + 1) % API_KEYS.length
NextIndex(keys, idx) ==
    IF idx = NaN \/ Len(keys) = 0 THEN NaN ELSE (idx + 1) % Len(keys)

\* Array.prototype.indexOf, 0-based, -1 when absent
IndexOf(keys, k) ==
    IF \E i \in 1..Len(keys) : keys[i] = k
    THEN (CHOOSE i \in 1..Len(keys) :
              keys[i] = k /\ \A j \in 1..(i - 1) : keys[j] # k) - 1
    ELSE -1

\* Array.prototype.splice(index, 1)
Splice(keys, index) ==
    [i \in 1..(Len(keys) - 1) |-> IF i <= index THEN keys[i] ELSE keys[i + 1]]

-----------------------------------------------------------------------------
(* The response cache *)

\* JSON.stringify({ message, history: history.slice(-5) })
\* variant: the key is built from the trimmed, lowercased message
getCacheKeyNormalized(message, history) ==
    [message |-> [i \in 1..Len(Trim(message)) |->
                     IF Trim(message)[i] = "H" THEN "h" ELSE Trim(message)[i]],
     history |-> SliceLast(history, CACHE_KEY_HISTORY)]

\* variant: the key is built from the whole history
getCacheKeyWholeHistory(message, history) ==
    [message |-> message, history |-> history]

getCacheKey(message, history) ==
    [message |-> message, history |-> SliceLast(history, CACHE_KEY_HISTORY)]

NoData == [reply |-> <<>>, parts |-> <<>>, timestamp |-> -1, present |-> FALSE]

\* variant: an entry is still fresh at exactly CACHE_TTL
FreshInclusive(cache, key, t) ==
    key \in DOMAIN cache /\ t - cache[key].timestamp <= CACHE_TTL

\* item && Date.now() - item.timestamp < CACHE_TTL
Fresh(cache, key, t) ==
    key \in DOMAIN cache /\ t - cache[key].timestamp < CACHE_TTL

getFromCache(cache, key, t) ==
    IF Fresh(cache, key, t) THEN cache[key].data ELSE NoData

\* variant: nothing is stored
setCacheSkipped(cache, key, data, t) == cache

\* variant: an existing entry is not overwritten
setCacheKeepOld(cache, key, data, t) ==
    [k \in (DOMAIN cache) \cup {key} |->
        IF k \in DOMAIN cache THEN cache[k]
        ELSE [data |-> data, timestamp |-> t]]

\* responseCache.set(key, { data, timestamp: Date.now() })
setCache(cache, key, data, t) ==
    [k \in (DOMAIN cache) \cup {key} |->
        IF k = key THEN [data |-> data, timestamp |-> t] ELSE cache[k]]

-----------------------------------------------------------------------------
(* Request validation: handleDoctorChat, index.js:156-194 *)

\* a history entry as the handler sees it: a JavaScript value with, when it
\* is an object, the values of its role and parts properties
Item(role, parts) == [t |-> "object", role |-> role, parts |-> parts]
NullItem == [t |-> "null", role |-> Undefined, parts |-> Undefined]
NumberItem == [t |-> "number", role |-> Undefined, parts |-> Undefined]

Arr(items) == [t |-> "array", items |-> items]
NotArr == [t |-> "object", items |-> <<>>]

ROLES == {Str(<<"user">>), Str(<<"assistant">>), Str(<<"model">>)}

\* reading a property of null or undefined throws a TypeError
ItemThrows(item) == item.t \in {"null", "undefined"}

\* !item.role || !item.parts
ItemLacks(item) == ~Truthy(item.role) \/ ~Truthy(item.parts)

\* the outcome of one pass of the loop body at index.js:180-194
ItemCheck(item) ==
    IF ItemThrows(item) THEN "THROW"
    ELSE IF ItemLacks(item) THEN "HISTORY_ITEM"
    ELSE IF item.role \notin ROLES THEN "HISTORY_ROLE"
    ELSE "ok"

\* for (const item of history): the first entry that does not pass decides
RECURSIVE HistoryCheck(_)
HistoryCheck(items) ==
    IF items = <<>> THEN "ok"
    ELSE IF ItemCheck(Head(items)) # "ok" THEN ItemCheck(Head(items))
    ELSE HistoryCheck(Tail(items))

\* variant: a message of exactly 5000 characters is refused
TooLongOffByOne(message) == Len(message.v) >= MAX_MESSAGE_LENGTH

\* message.length > 5000
TooLong(message) == Len(message.v) > MAX_MESSAGE_LENGTH

\* the validation of handleDoctorChat: "ok", the error it answers, or "THROW"
Validate(message, history) ==
    IF ~Truthy(message) \/ message.t # "string" THEN "MESSAGE_REQUIRED"
    ELSE IF TooLong(message) THEN "MESSAGE_TOO_LONG"
    ELSE IF history.t # "array" THEN "HISTORY_NOT_ARRAY"
    ELSE HistoryCheck(history.items)

-----------------------------------------------------------------------------
(* Failures of the external call and their classification, index.js:327-365 *)

\* an error: its message is a sequence of fragments, and includes(x) holds
\* when x is one of them; an error may carry no message at all
Err(fragments) == [hasMessage |-> TRUE, message |-> fragments]
ErrNoMessage == [hasMessage |-> FALSE, message |-> <<>>]

\* err.message?.includes(x)
Includes(err, x) ==
    err.hasMessage /\ \E i \in 1..Len(err.message) : err.message[i] = x

\* the TypeError raised by item.role on a null entry
TypeErrorOfNull == Err(<<"Cannot read properties of null">>)

Outcome(status, code) == [status |-> status, code |-> code]

\* variant: the catch block without its quota rule
ClassifyNoQuota(err) ==
    IF Includes(err, "API_KEY") \/ Includes(err, "API key")
        THEN Outcome(401, "API_KEY_ERROR")
    ELSE IF Includes(err, "safety") \/ Includes(err, "SAFETY")
        THEN Outcome(400, "SAFETY_FILTER")
    ELSE IF Includes(err, "400")
        THEN Outcome(400, "BAD_REQUEST")
    ELSE Outcome(500, "INTERNAL_ERROR")

\* variant: the quota rule is tried before the credential rule
ClassifyQuotaFirst(err) ==
    IF Includes(err, "quota") \/ Includes(err, "QUOTA_EXCEEDED")
        THEN Outcome(429, "QUOTA_EXCEEDED")
    ELSE IF Includes(err, "API_KEY") \/ Includes(err, "API key")
        THEN Outcome(401, "API_KEY_ERROR")
    ELSE IF Includes(err, "safety") \/ Includes(err, "SAFETY")
        THEN Outcome(400, "SAFETY_FILTER")
    ELSE IF Includes(err, "400")
        THEN Outcome(400, "BAD_REQUEST")
    ELSE Outcome(500, "INTERNAL_ERROR")

\* the catch block of handleDoctorChat
Classify(err) ==
    IF Includes(err, "API_KEY") \/ Includes(err, "API key")
        THEN Outcome(401, "API_KEY_ERROR")
    ELSE IF Includes(err, "quota") \/ Includes(err, "QUOTA_EXCEEDED")
        THEN Outcome(429, "QUOTA_EXCEEDED")
    ELSE IF Includes(err, "safety") \/ Includes(err, "SAFETY")
        THEN Outcome(400, "SAFETY_FILTER")
    ELSE IF Includes(err, "400")
        THEN Outcome(400, "BAD_REQUEST")
    ELSE Outcome(500, "INTERNAL_ERROR")

\* the catch block of the stream branch, before any byte was written:
\* res.status(500).json({ error, message }), with no code
StreamFailure == Outcome(500, "NONE")

-----------------------------------------------------------------------------
(* Requests, handler activations and responses *)

Slots == {1, 2}

Req(message, history, stream) ==
    [message |-> message, history |-> history, stream |-> stream]

NoReq == Req(Undefined, NotArr, FALSE)

\* a handler suspended at an await, with the locals it resumes with;
\* received observes the chunks the upstream stream has delivered to it,
\* keysTaken and apiCalls count its calls of getNextApiKey and of
\* sendMessage or sendMessageStream
Idle ==
    [pc |-> "idle", req |-> NoReq, cacheKey |-> getCacheKey(<<>>, <<>>),
     apiKey |-> UndefinedKey, fullResponse |-> <<>>, written |-> <<>>,
     chunks |-> 0, received |-> <<>>, keysTaken |-> 0, apiCalls |-> 0]

\* what res.write appends to a streamed body
Chunk(text) == [kind |-> "chunk", text |-> text]
Marker == [kind |-> "marker", text |-> <<>>]
Metadata(parts) == [kind |-> "metadata", text |-> parts]
ErrorText == [kind |-> "error", text |-> <<>>]

\* the record of a completed response; sync says it was sent in the step
\* the request arrived in
NoResp ==
    [seq |-> 0, req |-> NoReq, sync |-> FALSE, status |-> 0, code |-> "NONE",
     error |-> "NONE", fromCache |-> FALSE, reply |-> <<>>, parts |-> <<>>,
     body |-> <<>>, time |-> 0]

\* res.status(status).json({ error, code })
JsonError(seq, req, sync, outcome, error, t) ==
    [seq |-> seq, req |-> req, sync |-> sync, status |-> outcome.status,
     code |-> outcome.code, error |-> error, fromCache |-> FALSE,
     reply |-> <<>>, parts |-> <<>>, body |-> <<>>, time |-> t]

\* res.json(payload) with status 200
JsonReply(seq, req, sync, data, fromCache, t) ==
    [seq |-> seq, req |-> req, sync |-> sync, status |-> 200, code |-> "NONE",
     error |-> "NONE", fromCache |-> fromCache, reply |-> data.reply,
     parts |-> data.parts, body |-> <<>>, time |-> t]

\* a text/plain body ended by res.end()
StreamReply(seq, req, body, t) ==
    [seq |-> seq, req |-> req, sync |-> FALSE, status |-> 200, code |-> "NONE",
     error |-> "NONE", fromCache |-> FALSE, reply |-> <<>>, parts |-> <<>>,
     body |-> body, time |-> t]

\* chat requests that have arrived so far
Arrived == lastResp.seq + Cardinality({s \in Slots : handlers[s].pc # "idle"})

\* observer of the rotation: the credentials handed out since the cursor
\* was last 0, up to one full cycle and one more, forgotten when the pool
\* is modified
IssuedAfter(log, keys, idx, key) ==
    IF log = <<>>
    THEN IF idx = 0 /\ Len(keys) > 0 THEN <<key>> ELSE <<>>
    ELSE IF Len(log) <= Len(keys) THEN Append(log, key) ELSE <<>>

-----------------------------------------------------------------------------
(* handleDoctorChat, from arrival to its first await: index.js:154-260 *)

\* the payload built at index.js:313-320
ResponseData(text, t) ==
    [reply |-> text, parts |-> text, timestamp |-> t, present |-> TRUE]

\* variant: the cache is never consulted
ServeFromCacheNever(cached, stream) == FALSE

\* cachedResponse && !stream
ServeFromCache(cached, stream) == cached.present /\ ~stream

\* history.slice(-20)
LimitHistory(items) == SliceLast(items, HISTORY_LIMIT)

\* a validation failure: 400, or the TypeError caught at index.js:327
Reject(req, v) ==
    /\ lastResp' = IF v = "THROW"
                   THEN JsonError(lastResp.seq + 1, req, TRUE,
                                  Classify(TypeErrorOfNull), "INTERNAL", now)
                   ELSE JsonError(lastResp.seq + 1, req, TRUE,
                                  Outcome(400, "NONE"), v, now)
    /\ UNCHANGED <<API_KEYS, currentApiKeyIndex, responseCache, now,
                   handlers, issued, lastWrite, lastStore>>

\* variant: a hit stamps the entry anew
AnswerFromCacheRefreshed(req, cached) ==
    /\ lastResp' = JsonReply(lastResp.seq + 1, req, TRUE,
                             [cached EXCEPT !.timestamp = now], TRUE, now)
    /\ responseCache' =
           [responseCache EXCEPT
               ![getCacheKey(req.message.v,
                             LimitHistory(req.history.items))].timestamp = now]
    /\ UNCHANGED <<API_KEYS, currentApiKeyIndex, now,
                   handlers, issued, lastWrite, lastStore>>

\* index.js:203-209
AnswerFromCache(req, cached) ==
    /\ lastResp' = JsonReply(lastResp.seq + 1, req, TRUE,
                             [cached EXCEPT !.timestamp = now], TRUE, now)
    /\ UNCHANGED <<API_KEYS, currentApiKeyIndex, responseCache, now,
                   handlers, issued, lastWrite, lastStore>>

\* index.js:211-269/302: take a credential, start the chat, call out, await
CallExternal(s, req, key) ==
    /\ handlers' = [handlers EXCEPT ![s] =
          [pc |-> IF req.stream THEN "awaitStream" ELSE "awaitSend",
           req |-> req, cacheKey |-> key,
           apiKey |-> KeyAt(API_KEYS, currentApiKeyIndex),
           fullResponse |-> <<>>, written |-> <<>>, chunks |-> 0,
           received |-> <<>>,
           keysTaken |-> handlers[s].keysTaken + 1,
           apiCalls |-> handlers[s].apiCalls + 1]]
    /\ currentApiKeyIndex' = NextIndex(API_KEYS, currentApiKeyIndex)
    /\ issued' = IssuedAfter(issued, API_KEYS, currentApiKeyIndex,
                             KeyAt(API_KEYS, currentApiKeyIndex))
    /\ lastWrite' = "getNextApiKey"
    /\ UNCHANGED <<API_KEYS, responseCache, now, lastResp, lastStore>>

\* handleDoctorChat up to its first await or its synchronous answer
HandleDoctorChat(s, message, history, stream) ==
    LET req == Req(message, history, stream)
        v == Validate(message, history)
    IN  IF v # "ok" THEN Reject(req, v)
        ELSE LET key == getCacheKey(message.v, LimitHistory(history.items))
                 cached == getFromCache(responseCache, key, now)
             IN  IF ServeFromCache(cached, stream)
                 THEN AnswerFromCache(req, cached)
                 ELSE CallExternal(s, req, key)

\* POST /api/doctor-chat, index.js:116-119, with the defaults applied
ChatArrive(s, message, history, stream) ==
    /\ handlers[s].pc = "idle"
    /\ Arrived < MaxRequests
    /\ HandleDoctorChat(s, message, history, stream)

-----------------------------------------------------------------------------
(* GET /api/doctor-chat, index.js:122-151 *)

HexDigits ==
    {"0", "1", "2", "3", "4", "5", "6", "7", "8", "9",
     "A", "B", "C", "D", "E", "F", "a", "b", "c", "d", "e", "f"}

\* the character of an escape %ab below 0x80: those the inputs use, and
\* "?" for every other one
AsciiOf(a, b) ==
    CASE <<a, b>> = <<"4", "1">> -> "A"
      [] <<a, b>> = <<"2", "0">> -> " "
      [] <<a, b>> = <<"2", "5">> -> "%"
      [] OTHER -> "?"

\* decodeURIComponent on a character sequence: ok with the decoded text, or
\* not ok where it throws URIError: a % without two hex digits after it,
\* or an escape of 0x80 and above that begins no UTF-8 sequence the inputs
\* complete
RECURSIVE decodeURIComponent(_)
decodeURIComponent(s) ==
    IF s = <<>> THEN [ok |-> TRUE, v |-> <<>>]
    ELSE IF Head(s) # "%"
    THEN LET r == decodeURIComponent(Tail(s))
         IN  [ok |-> r.ok, v |-> IF r.ok THEN <<Head(s)>> \o r.v ELSE <<>>]
    ELSE IF Len(s) < 3 \/ s[2] \notin HexDigits \/ s[3] \notin HexDigits
                \/ s[2] \notin {"0", "1", "2", "3", "4", "5", "6", "7"}
    THEN [ok |-> FALSE, v |-> <<>>]
    ELSE LET r == decodeURIComponent(SubSeq(s, 4, Len(s)))
         IN  [ok |-> r.ok,
              v |-> IF r.ok THEN <<AsciiOf(s[2], s[3])>> \o r.v ELSE <<>>]

\* JSON.parse on the texts the inputs use: an empty array, an empty object,
\* and a SyntaxError for the rest
JSONParse(s) ==
    CASE s = <<"[", "]">> -> [ok |-> TRUE, v |-> Arr(<<>>)]
      [] s = <<"{", "}">> -> [ok |-> TRUE, v |-> NotArr]
      [] OTHER -> [ok |-> FALSE, v |-> NotArr]

\* req.query.history ? JSON.parse(decodeURIComponent(...)) : [], with its
\* try and catch
ParseHistory(history) ==
    IF ~Truthy(history) THEN [ok |-> TRUE, v |-> Arr(<<>>)]
    ELSE IF ~decodeURIComponent(history.v).ok THEN [ok |-> FALSE, v |-> NotArr]
    ELSE JSONParse(decodeURIComponent(history.v).v)

\* the async route function throws outside every try, so its promise
\* rejects: a router that watches the promise passes the error on and the
\* framework answers 500; one that does not leaves the request without an
\* answer
RouteRejects(s, req) ==
    \/ /\ lastResp' = JsonError(lastResp.seq + 1, req, TRUE,
                                 Outcome(500, "NONE"), "UNHANDLED", now)
       /\ UNCHANGED <<API_KEYS, currentApiKeyIndex, responseCache, now,
                      handlers, issued, lastWrite, lastStore>>
    \/ /\ handlers' = [handlers EXCEPT ![s] =
                           [Idle EXCEPT !.pc = "unanswered", !.req = req]]
       /\ UNCHANGED <<API_KEYS, currentApiKeyIndex, responseCache, now,
                      lastResp, issued, lastWrite, lastStore>>

\* message, history and stream are the values of req.query
GetArrive(s, message, history, stream) ==
    /\ handlers[s].pc = "idle"
    /\ Arrived < MaxRequests
    /\ LET parsed == ParseHistory(history)
           asked == stream = Str(<<"t", "r", "u", "e">>)
       IN  IF ~Truthy(message)
           THEN Reject(Req(message, parsed.v, asked), "MESSAGE_PARAM_REQUIRED")
           ELSE IF ~parsed.ok
           THEN Reject(Req(message, parsed.v, asked), "HISTORY_FORMAT")
           ELSE IF ~decodeURIComponent(message.v).ok
           THEN RouteRejects(s, Req(message, parsed.v, asked))
           ELSE HandleDoctorChat(s, Str(decodeURIComponent(message.v).v),
                                 parsed.v, asked)

-----------------------------------------------------------------------------
(* handleDoctorChat resumed: the non-stream branch, index.js:300-326 *)

\* !text || text.trim() === ''
EmptyText(text) == text = <<>> \/ Trim(text) = <<>>

SendMessageReturns(s, text) ==
    /\ handlers[s].pc = "awaitSend"
    /\ IF EmptyText(text)
       THEN /\ lastResp' = JsonError(lastResp.seq + 1, handlers[s].req, FALSE,
                                     Outcome(500, "NONE"), "EMPTY_RESPONSE",
                                     now)
            /\ UNCHANGED <<responseCache, lastStore>>
       ELSE /\ responseCache' = setCache(responseCache, handlers[s].cacheKey,
                                         ResponseData(text, now), now)
            /\ lastStore' = [set |-> TRUE, key |-> handlers[s].cacheKey,
                             data |-> ResponseData(text, now), t |-> now,
                             req |-> handlers[s].req]
            /\ lastResp' = JsonReply(lastResp.seq + 1, handlers[s].req, FALSE,
                                     ResponseData(text, now), FALSE, now)
    /\ handlers' = [handlers EXCEPT ![s] = Idle]
    /\ UNCHANGED <<API_KEYS, currentApiKeyIndex, now, issued, lastWrite>>

\* variant: a failed call is tried again with the next credential
SendMessageThrowsRetried(s, err) ==
    /\ handlers[s].pc = "awaitSend"
    /\ handlers' = [handlers EXCEPT ![s] =
          [@ EXCEPT !.apiKey = KeyAt(API_KEYS, currentApiKeyIndex),
                    !.keysTaken = @ + 1,
                    !.apiCalls = @ + 1]]
    /\ currentApiKeyIndex' = NextIndex(API_KEYS, currentApiKeyIndex)
    /\ issued' = IssuedAfter(issued, API_KEYS, currentApiKeyIndex,
                             KeyAt(API_KEYS, currentApiKeyIndex))
    /\ lastWrite' = "getNextApiKey"
    /\ UNCHANGED <<API_KEYS, responseCache, now, lastResp, lastStore>>

SendMessageThrows(s, err) ==
    /\ handlers[s].pc = "awaitSend"
    /\ lastResp' = JsonError(lastResp.seq + 1, handlers[s].req, FALSE,
                             Classify(err), "UPSTREAM", now)
    /\ handlers' = [handlers EXCEPT ![s] = Idle]
    /\ UNCHANGED <<API_KEYS, currentApiKeyIndex, responseCache, now, issued,
                   lastWrite, lastStore>>

-----------------------------------------------------------------------------
(* handleDoctorChat resumed: the stream branch, index.js:262-299 *)

\* res.headersSent: true once res.write was called
HeadersSent(h) == h.written # <<>>

\* await chat.sendMessageStream(message) resolves
StreamOpens(s) ==
    /\ handlers[s].pc = "awaitStream"
    /\ handlers' = [handlers EXCEPT ![s].pc = "streaming"]
    /\ UNCHANGED <<API_KEYS, currentApiKeyIndex, responseCache, now,
                   lastResp, issued, lastWrite, lastStore>>

\* variant: the loop body without its if (text) test
StreamChunkUnfiltered(s, text) ==
    /\ handlers[s].pc = "streaming"
    /\ handlers[s].chunks < MaxChunks
    /\ handlers' = [handlers EXCEPT ![s] =
          [@ EXCEPT !.fullResponse = @ \o text,
                    !.written = Append(@, Chunk(text)),
                    !.chunks = @ + 1,
                    !.received = Append(@, text)]]
    /\ UNCHANGED <<API_KEYS, currentApiKeyIndex, responseCache, now,
                   lastResp, issued, lastWrite, lastStore>>

\* one iteration of for await (const chunk of result.stream)
StreamChunk(s, text) ==
    /\ handlers[s].pc = "streaming"
    /\ handlers[s].chunks < MaxChunks
    /\ handlers' = [handlers EXCEPT ![s] =
          IF text # <<>>
          THEN [@ EXCEPT !.fullResponse = @ \o text,
                         !.written = Append(@, Chunk(text)),
                         !.chunks = @ + 1,
                         !.received = Append(@, text)]
          ELSE [@ EXCEPT !.chunks = @ + 1,
                         !.received = Append(@, text)]]
    /\ UNCHANGED <<API_KEYS, currentApiKeyIndex, responseCache, now,
                   lastResp, issued, lastWrite, lastStore>>

\* sendMessageStream rejects, or the iteration throws: index.js:288-299
StreamThrows(s, err) ==
    /\ handlers[s].pc \in {"awaitStream", "streaming"}
    /\ lastResp' =
          IF HeadersSent(handlers[s])
          THEN StreamReply(lastResp.seq + 1, handlers[s].req,
                           Append(handlers[s].written, ErrorText), now)
          ELSE JsonError(lastResp.seq + 1, handlers[s].req, FALSE,
                         StreamFailure, "STREAM", now)
    /\ handlers' = [handlers EXCEPT ![s] = Idle]
    /\ UNCHANGED <<API_KEYS, currentApiKeyIndex, responseCache, now, issued,
                   lastWrite, lastStore>>

\* the stream is exhausted: index.js:280-287
StreamEnds(s) ==
    /\ handlers[s].pc = "streaming"
    /\ lastResp' = StreamReply(lastResp.seq + 1, handlers[s].req,
                      handlers[s].written \o
                          <<Marker, Metadata(handlers[s].fullResponse)>>,
                      now)
    /\ handlers' = [handlers EXCEPT ![s] = Idle]
    /\ UNCHANGED <<API_KEYS, currentApiKeyIndex, responseCache, now, issued,
                   lastWrite, lastStore>>

-----------------------------------------------------------------------------
(* The other routes *)

\* GET /health, index.js:104-113: reads the pool size and the cursor
Health ==
    UNCHANGED <<API_KEYS, currentApiKeyIndex, responseCache, now,
                handlers, lastResp, issued, lastWrite, lastStore>>

\* GET /api/models, index.js:369-388
ListModels ==
    /\ currentApiKeyIndex' = NextIndex(API_KEYS, currentApiKeyIndex)
    /\ issued' = IssuedAfter(issued, API_KEYS, currentApiKeyIndex,
                             KeyAt(API_KEYS, currentApiKeyIndex))
    /\ lastWrite' = "getNextApiKey"
    /\ UNCHANGED <<API_KEYS, responseCache, now, handlers, lastResp,
                   lastStore>>

\* POST /api/licenses, index.js:392-415; the empty string stands for every
\* key the first check refuses
AddLicense(key) ==
    /\ IF key = "" \/ IndexOf(API_KEYS, key) # -1
       THEN UNCHANGED <<API_KEYS, issued>>
       ELSE /\ API_KEYS' = Append(API_KEYS, key)
            /\ issued' = <<>>
    /\ UNCHANGED <<currentApiKeyIndex, responseCache, now, handlers,
                   lastResp, lastWrite, lastStore>>

\* variant: the cursor is reset to the last index, not to 0
ResetIndexToLast(keys, idx) ==
    IF idx >= Len(keys) THEN Len(keys) - 1 ELSE idx

\* if (currentApiKeyIndex >= API_KEYS.length) currentApiKeyIndex = 0
ResetIndex(keys, idx) == IF idx >= Len(keys) THEN 0 ELSE idx

\* DELETE /api/licenses/:key, index.js:418-440
DeleteLicense(key) ==
    /\ IF IndexOf(API_KEYS, key) = -1
       THEN UNCHANGED <<API_KEYS, currentApiKeyIndex, issued, lastWrite>>
       ELSE /\ API_KEYS' = Splice(API_KEYS, IndexOf(API_KEYS, key))
            /\ currentApiKeyIndex' =
                   ResetIndex(Splice(API_KEYS, IndexOf(API_KEYS, key)),
                              currentApiKeyIndex)
            /\ lastWrite' =
                   IF currentApiKeyIndex >=
                          Len(Splice(API_KEYS, IndexOf(API_KEYS, key)))
                   THEN "delete" ELSE lastWrite
            /\ issued' = <<>>
    /\ UNCHANGED <<responseCache, now, handlers, lastResp, lastStore>>

\* GET /api/licenses, index.js:443-453
ListLicenses ==
    UNCHANGED <<API_KEYS, currentApiKeyIndex, responseCache, now,
                handlers, lastResp, issued, lastWrite, lastStore>>

\* time passes
Tick(d) ==
    /\ now + d <= MaxTime
    /\ now' = now + d
    /\ UNCHANGED <<API_KEYS, currentApiKeyIndex, responseCache, handlers,
                   lastResp, issued, lastWrite, lastStore>>

TickSteps == {CACHE_TTL - 1, CACHE_TTL, CACHE_TTL + 1}

-----------------------------------------------------------------------------
(* Startup: index.js:37-53 *)

LicenseKeys == {"k1", "k2", "k3"}

\* GEMINI_API_KEYS.split(','), accepted when the first element is non-empty
Pools(n) == UNION {[1..k -> LicenseKeys] : k \in 1..n}

InitWith(pools) ==
    /\ API_KEYS \in pools
    /\ currentApiKeyIndex = 0
    /\ responseCache = << >>
    /\ now = 0
    /\ handlers = [s \in Slots |-> Idle]
    /\ lastResp = NoResp
    /\ issued = <<>>
    /\ lastWrite = "none"
    /\ lastStore = [set |-> FALSE, key |-> getCacheKey(<<>>, <<>>),
                    data |-> NoData, t |-> 0, req |-> NoReq]

-----------------------------------------------------------------------------
(* Inputs *)

hi == Str(<<"h", "i">>)
UserTurn == Item(Str(<<"user">>), Str(<<"x">>))
ModelTurn == Item(Str(<<"model">>), Str(<<"y">>))

ReplyA == <<"A">>
ReplyB == <<"B">>

-----------------------------------------------------------------------------
(* The service with its credential pool managed at run time *)

Init == InitWith(Pools(MaxInitPool))

Next ==
    \/ \E m \in {hi, Undefined}, st \in BOOLEAN :
           ChatArrive(1, m, Arr(<<>>), st)
    \/ SendMessageReturns(1, ReplyA)
    \/ SendMessageThrows(1, Err(<<"quota">>))
    \/ StreamOpens(1)
    \/ StreamChunk(1, ReplyA)
    \/ StreamThrows(1, Err(<<"quota">>))
    \/ StreamEnds(1)
    \/ Health
    \/ ListModels
    \/ \E k \in LicenseKeys \cup {""} : AddLicense(k)
    \/ \E k \in LicenseKeys : DeleteLicense(k)
    \/ ListLicenses

Spec == Init /\ [][Next]_vars

-----------------------------------------------------------------------------
(* The service under requests of every shape, with a fixed pool *)

Long(n) == Str(Repeat("a", n))

NoRoleTurn == Item(Undefined, Str(<<"x">>))
NoPartsTurn == Item(Str(<<"user">>), Undefined)
EmptyPartsTurn == Item(Str(<<"model">>), Str(<<>>))
BadRoleTurn == Item(Str(<<"doctor">>), Str(<<"x">>))

ValMessages == {Undefined, Num("7"), Str(<<>>), hi}

ValHistories ==
    {NotArr, Arr(<<>>), Arr(<<UserTurn, ModelTurn>>),
     Arr(<<NoRoleTurn>>), Arr(<<UserTurn, NoPartsTurn>>),
     Arr(<<EmptyPartsTurn, UserTurn>>), Arr(<<BadRoleTurn, NoRoleTurn>>),
     Arr(<<NumberItem>>), Arr(<<NullItem>>), Arr(<<UserTurn, NullItem>>),
     Arr(<<NoRoleTurn, NullItem>>)}

InitValidation == InitWith({<<"k1", "k2">>})

NextValidation ==
    \/ \E m \in ValMessages, h \in ValHistories, st \in BOOLEAN :
           ChatArrive(1, m, h, st)
    \/ SendMessageReturns(1, ReplyA)
    \/ SendMessageThrows(1, Err(<<"quota">>))
    \/ StreamOpens(1)
    \/ StreamChunk(1, ReplyA)
    \/ StreamThrows(1, Err(<<"quota">>))
    \/ StreamEnds(1)

SpecValidation == InitValidation /\ [][NextValidation]_vars

-----------------------------------------------------------------------------
(* The service under messages at the length limit *)

LengthMessages ==
    {hi, Long(MAX_MESSAGE_LENGTH), Long(MAX_MESSAGE_LENGTH + 1)}

LengthHistories == {Arr(<<>>), NotArr, Arr(<<NullItem>>)}

InitLength == InitWith({<<"k1", "k2">>})

NextLength ==
    \/ \E m \in LengthMessages, h \in LengthHistories, st \in BOOLEAN :
           ChatArrive(1, m, h, st)
    \/ SendMessageReturns(1, ReplyA)
    \/ SendMessageThrows(1, Err(<<"quota">>))
    \/ StreamOpens(1)
    \/ StreamChunk(1, ReplyA)
    \/ StreamThrows(1, Err(<<"quota">>))
    \/ StreamEnds(1)

SpecLength == InitLength /\ [][NextLength]_vars

-----------------------------------------------------------------------------
(* The service under repeated requests while time passes *)

HiSpace == Str(<<"H", "i", " ">>)

CacheMessages == {hi, HiSpace}
CacheHistories == {Arr(<<>>), Arr(<<UserTurn, ModelTurn>>)}

InitCache == InitWith({<<"k1", "k2">>})

NextCache ==
    \/ \E m \in CacheMessages, h \in CacheHistories, st \in BOOLEAN :
           ChatArrive(1, m, h, st)
    \/ \E text \in {ReplyA, ReplyB, <<" ">>} : SendMessageReturns(1, text)
    \/ SendMessageThrows(1, Err(<<"quota">>))
    \/ StreamOpens(1)
    \/ StreamChunk(1, ReplyA)
    \/ StreamThrows(1, Err(<<"quota">>))
    \/ StreamEnds(1)
    \/ \E d \in TickSteps : Tick(d)

SpecCache == InitCache /\ [][NextCache]_vars

-----------------------------------------------------------------------------
(* The service under single-shot requests with long histories *)

Turn(c) == Item(Str(<<"user">>), Str(<<c>>))

RecentTurns == <<Turn("1"), Turn("2"), Turn("3"), Turn("4"), Turn("5")>>

HistoryHistories ==
    {Arr(<<>>),
     Arr(RecentTurns),
     Arr(<<UserTurn>> \o RecentTurns),
     Arr(<<ModelTurn>> \o RecentTurns),
     Arr(<<UserTurn, Turn("1"), Turn("2"), Turn("3"), Turn("4"), Turn("6")>>),
     Arr(Repeat(ModelTurn, HISTORY_LIMIT - CACHE_KEY_HISTORY + 1)
             \o RecentTurns)}

InitHistory == InitWith({<<"k1", "k2">>})

NextHistory ==
    \/ \E h \in HistoryHistories : ChatArrive(1, hi, h, FALSE)
    \/ \E text \in {ReplyA, ReplyB} : SendMessageReturns(1, text)
    \/ SendMessageThrows(1, Err(<<"quota">>))
    \/ \E d \in TickSteps : Tick(d)

SpecHistory == InitHistory /\ [][NextHistory]_vars

-----------------------------------------------------------------------------
(* The service under overlapping requests, with a fixed pool *)

InitConcurrent == InitWith({<<"k1", "k2">>, <<"k1", "k2", "k3">>})

NextConcurrent ==
    \/ \E s \in Slots, st \in BOOLEAN : ChatArrive(s, hi, Arr(<<>>), st)
    \/ \E s \in Slots : SendMessageReturns(s, ReplyA)
    \/ \E s \in Slots : SendMessageThrows(s, Err(<<"quota">>))
    \/ \E s \in Slots : StreamOpens(s)
    \/ \E s \in Slots : StreamChunk(s, ReplyA)
    \/ \E s \in Slots : StreamThrows(s, Err(<<"quota">>))
    \/ \E s \in Slots : StreamEnds(s)
    \/ ListModels

SpecConcurrent == InitConcurrent /\ [][NextConcurrent]_vars

-----------------------------------------------------------------------------
(* The chat routes under every shape of input, where the external call
   always comes back *)

RouteMessages == {hi, Undefined}
RouteHistories == {Arr(<<>>), Arr(<<NullItem>>), NotArr}

\* values of req.query after the framework has decoded the query string:
\* "hi", "%41" and "100%" for message
QueryMessages ==
    {Undefined, hi, Str(<<"%", "4", "1">>), Str(<<"1", "0", "0", "%">>)}

\* "[]", "{}", "[" and "%" for history
QueryHistories ==
    {Undefined, Str(<<"[", "]">>), Str(<<"{", "}">>), Str(<<"[">>),
     Str(<<"%">>)}

QueryStreams == {Undefined, Str(<<"t", "r", "u", "e">>), Str(<<"1">>)}

\* the steps in which the external call of handler s comes back
Resumes(s) ==
    \/ \E text \in {ReplyA, <<>>} : SendMessageReturns(s, text)
    \/ SendMessageThrows(s, Err(<<"quota">>))
    \/ StreamOpens(s)
    \/ \E text \in {ReplyA, <<>>} : StreamChunk(s, text)
    \/ StreamThrows(s, Err(<<"quota">>))
    \/ StreamEnds(s)

InitRoutes == InitWith({<<"k1", "k2">>})

NextRoutes ==
    \/ \E s \in Slots, m \in RouteMessages, h \in RouteHistories,
          st \in BOOLEAN : ChatArrive(s, m, h, st)
    \/ \E s \in Slots, m \in QueryMessages, h \in QueryHistories,
          st \in QueryStreams : GetArrive(s, m, h, st)
    \/ \E s \in Slots : Resumes(s)

\* the external call eventually returns or throws
SpecRoutes ==
    InitRoutes /\ [][NextRoutes]_vars /\ \A s \in Slots : WF_vars(Resumes(s))

-----------------------------------------------------------------------------
(* The service under failures of the external API *)

UpstreamErrors ==
    {Err(<<"quota">>), Err(<<"QUOTA_EXCEEDED">>), Err(<<"API key", "quota">>),
     Err(<<"API_KEY">>), Err(<<"quota", "safety", "400">>),
     Err(<<"SAFETY">>), Err(<<"safety", "400">>), Err(<<"400">>),
     Err(<<"timeout">>), ErrNoMessage}

InitUpstream == InitWith({<<"k1", "k2">>})

NextUpstream ==
    \/ \E st \in BOOLEAN : ChatArrive(1, hi, Arr(<<>>), st)
    \/ \E text \in {ReplyA, <<>>} : SendMessageReturns(1, text)
    \/ \E e \in UpstreamErrors : SendMessageThrows(1, e)
    \/ StreamOpens(1)
    \/ \E text \in {ReplyA, ReplyB, <<>>} : StreamChunk(1, text)
    \/ \E e \in UpstreamErrors : StreamThrows(1, e)
    \/ StreamEnds(1)

SpecUpstream == InitUpstream /\ [][NextUpstream]_vars

-----------------------------------------------------------------------------
(* Properties of the key rotator, checked under Spec *)

\* C1: with the pool unmodified, the calls of getNextApiKey that follow
\* cursor 0 return the credentials in pool order, each position once in N
\* calls, and the (N+1)-th call returns the first credential again.
C1_RotationInPoolOrder ==
    /\ \A i \in 1..Len(issued) :
           issued[i] = API_KEYS[((i - 1) % Len(API_KEYS)) + 1]
    /\ issued # <<>> =>
           currentApiKeyIndex = Len(issued) % Len(API_KEYS)

\* a pool of three distinct credentials went round once and began again
C1_Witness ==
    /\ Len(API_KEYS) = 3
    /\ Cardinality({API_KEYS[i] : i \in 1..3}) = 3
    /\ Len(issued) = 4
    /\ issued[4] = API_KEYS[1]

\* C7: the pool is never empty and the cursor is an index into it.
C7_PoolNonEmptyCursorInRange ==
    /\ Len(API_KEYS) > 0
    /\ currentApiKeyIndex >= 0
    /\ currentApiKeyIndex < Len(API_KEYS)

\* a step in which a handler called getNextApiKey
GetNextApiKeyCalled ==
    \/ ListModels
    \/ \E s \in Slots : handlers[s].pc = "idle" /\ handlers'[s].pc # "idle"

\* a step in which DELETE /api/licenses/:key reset the cursor
DeleteResetsCursor ==
    \E k \in LicenseKeys :
        /\ DeleteLicense(k)
        /\ currentApiKeyIndex >= Len(API_KEYS')
        /\ currentApiKeyIndex' = 0

\* C8 as claimed: only getNextApiKey changes the cursor.
C8_CursorOnlyRotated ==
    [][currentApiKeyIndex' # currentApiKeyIndex => GetNextApiKeyCalled]_vars

\* C8 amended: the cursor changes only in getNextApiKey and in a license
\* deletion that leaves it at or past the end of the pool, which sets it
\* to 0; health, license add and list, a rejected request and a cache hit
\* leave it as it is.
C8_CursorRotatedOrReset ==
    [][currentApiKeyIndex' # currentApiKeyIndex
          => GetNextApiKeyCalled \/ DeleteResetsCursor]_vars

\* a deletion has reset a cursor that pointed past the shrunken pool
C8_Witness ==
    lastWrite = "delete" /\ currentApiKeyIndex = 0 /\ Len(API_KEYS) >= 2

-----------------------------------------------------------------------------
(* Properties of request validation, checked under SpecLength (C5) and
   SpecValidation (C6) *)

\* the step answered request req at once, with this status
AnsweredAtOnce(req, status) ==
    /\ lastResp'.seq = lastResp.seq + 1
    /\ lastResp'.sync
    /\ lastResp'.req = req
    /\ lastResp'.status = status

\* C5: a request whose message is a string of more than 5000 characters
\* is answered 400 at once, with the cursor, the cache and the suspended
\* external calls as they were; a message of exactly 5000 characters is
\* not refused for its length.
C5_TooLongRejected ==
    [][\A m \in LengthMessages :
          (m.t = "string" /\ Len(m.v) >= 5000) =>
              \A s \in Slots, h \in LengthHistories, st \in BOOLEAN :
                  ChatArrive(s, m, h, st) =>
                      /\ Len(m.v) > 5000 =>
                            /\ AnsweredAtOnce(Req(m, h, st), 400)
                            /\ UNCHANGED <<API_KEYS, currentApiKeyIndex,
                                           responseCache, handlers, issued,
                                           lastWrite, lastStore>>
                      /\ Len(m.v) = 5000 =>
                            ~(/\ lastResp'.seq = lastResp.seq + 1
                              /\ lastResp'.error = "MESSAGE_TOO_LONG")
                      /\ (Len(m.v) = 5000 /\ h = Arr(<<>>)) =>
                            \/ handlers'[s].pc # "idle"
                            \/ lastResp'.status = 200]_vars

\* a 5001-character message was refused while a 5000-character one is
\* with the external API
C5_Witness ==
    /\ lastResp.status = 400
    /\ lastResp.error = "MESSAGE_TOO_LONG"
    /\ Len(lastResp.req.message.v) = 5001
    /\ \E s \in Slots : /\ handlers[s].pc # "idle"
                        /\ Len(handlers[s].req.message.v) = 5000

\* C6: a request with a valid message and an array history holding an
\* entry without a role or without parts is answered 400, wherever the
\* entry sits.
C6_LackingEntryRejected ==
    [][\A s \in Slots, m \in ValMessages, h \in ValHistories, st \in BOOLEAN :
          (/\ Truthy(m) /\ m.t = "string" /\ Len(m.v) <= 5000
           /\ h.t = "array"
           /\ \E i \in 1..Len(h.items) : ItemLacks(h.items[i])
           /\ ChatArrive(s, m, h, st))
          => AnsweredAtOnce(Req(m, h, st), 400)]_vars

-----------------------------------------------------------------------------
(* Properties of the response cache, checked under SpecCache *)

\* C2: after setCache(key, value) at time t, with no setCache since,
\* getFromCache(key) at time t' gives that value when t' - t < CACHE_TTL
\* and nothing once t' - t >= CACHE_TTL.
C2_StoreThenLookup ==
    lastStore.set =>
        getFromCache(responseCache, lastStore.key, now) =
            IF now - lastStore.t < 300000 THEN lastStore.data ELSE NoData

\* a stored value is looked up exactly CACHE_TTL after it was stored
C2_Witness ==
    /\ lastStore.set
    /\ now - lastStore.t = 300000
    /\ getFromCache(responseCache, lastStore.key, now) = NoData

\* the response is a reply that ran to its end: a JSON reply, or a streamed
\* body closed by its metadata
Succeeded(r) ==
    /\ r.seq > 0
    /\ r.status = 200
    /\ r.body # <<>> => r.body[Len(r.body)].kind = "metadata"

\* the reply text a response carries
ReplyText(r) == IF r.body = <<>> THEN r.reply ELSE r.body[Len(r.body)].text

\* the step answers req from the cache, with this reply text
AnsweredFromCache(req, text) ==
    /\ AnsweredAtOnce(req, 200)
    /\ lastResp'.fromCache
    /\ ReplyText(lastResp') = text

\* C3 as claimed: when the last chat request succeeded and the same
\* message, history and stream flag arrive again within the TTL, the second
\* answer carries the same reply and is marked fromCache, and the first was
\* not.
C3_RepeatServedFromCache ==
    [][\A s \in Slots, m \in CacheMessages, h \in CacheHistories,
          st \in BOOLEAN :
          (/\ Succeeded(lastResp)
           /\ lastResp.req = Req(m, h, st)
           /\ now - lastResp.time < 300000
           /\ ChatArrive(s, m, h, st))
          => /\ ~lastResp.fromCache
             /\ AnsweredFromCache(Req(m, h, st), ReplyText(lastResp))]_vars

\* C3 amended: the same for non-stream requests of which the first was
\* answered by the external API.
C3_RepeatServedFromCacheNonStream ==
    [][\A s \in Slots, m \in CacheMessages, h \in CacheHistories :
          (/\ Succeeded(lastResp)
           /\ ~lastResp.fromCache
           /\ lastResp.req = Req(m, h, FALSE)
           /\ now - lastResp.time < 300000
           /\ ChatArrive(s, m, h, FALSE))
          => AnsweredFromCache(Req(m, h, FALSE), ReplyText(lastResp))]_vars

\* a repeated request was answered from the cache, after some time, with
\* the reply the external API gave the first
C3_Witness ==
    /\ Succeeded(lastResp)
    /\ lastResp.fromCache
    /\ ~lastResp.req.stream
    /\ lastStore.set
    /\ lastStore.key = getCacheKey(lastResp.req.message.v,
                                   LimitHistory(lastResp.req.history.items))
    /\ lastResp.reply = lastStore.data.reply
    /\ lastResp.time > lastStore.t

\* String.prototype.toLowerCase on the letters the inputs use
Lower(s) == [i \in 1..Len(s) |-> IF s[i] = "H" THEN "h" ELSE s[i]]

\* the normalisation the claim speaks of
Normalize(s) == Lower(Trim(s))

\* C9 as claimed: a non-stream request whose message equals, after
\* trimming and lowercasing, that of the request just answered by the
\* external API, with the same history and within the TTL, is served the
\* first one's cached entry.
C9_KeyedByNormalizedMessage ==
    [][\A s \in Slots, m1 \in CacheMessages, m2 \in CacheMessages,
          h \in CacheHistories :
          (/\ Succeeded(lastResp)
           /\ ~lastResp.fromCache
           /\ lastResp.req = Req(m1, h, FALSE)
           /\ Normalize(m1.v) = Normalize(m2.v)
           /\ now - lastResp.time < 300000
           /\ ChatArrive(s, m2, h, FALSE))
          => AnsweredFromCache(Req(m2, h, FALSE), ReplyText(lastResp))]_vars

\* C9 amended: the cache is keyed by the message text as it was sent: a
\* non-stream request is answered from the cache exactly when a fresh
\* entry is stored under its own, unnormalised text and its last five
\* history entries, and it is then given that entry's reply.
C9_KeyedByExactMessage ==
    [][\A s \in Slots, m \in CacheMessages, h \in CacheHistories :
          ChatArrive(s, m, h, FALSE) =>
              LET exact == [message |-> m.v,
                            history |-> SliceLast(h.items, 5)]
                  has == /\ exact \in DOMAIN responseCache
                         /\ now - responseCache[exact].timestamp < 300000
              IN  /\ has => AnsweredFromCache(Req(m, h, FALSE),
                                responseCache[exact].data.reply)
                  /\ ~has => /\ lastResp' = lastResp
                             /\ handlers'[s].pc = "awaitSend"]_vars

\* two fresh entries with the same history whose messages differ but
\* normalise to the same text
C9_Witness ==
    \E k1 \in DOMAIN responseCache, k2 \in DOMAIN responseCache :
        /\ k1.message # k2.message
        /\ Normalize(k1.message) = Normalize(k2.message)
        /\ k1.history = k2.history
        /\ Fresh(responseCache, k1, now)
        /\ Fresh(responseCache, k2, now)

\* C10 as claimed: a valid request, stream or not, whose key has a fresh
\* entry is answered with the stored payload marked fromCache, without a
\* credential being taken and without a call to the external API.
C10_FreshEntryServed ==
    [][\A s \in Slots, m \in CacheMessages, h \in CacheHistories,
          st \in BOOLEAN :
          (/\ Validate(m, h) = "ok"
           /\ Fresh(responseCache, getCacheKey(m.v, LimitHistory(h.items)),
                    now)
           /\ ChatArrive(s, m, h, st))
          => /\ AnsweredFromCache(Req(m, h, st),
                    responseCache[getCacheKey(m.v,
                        LimitHistory(h.items))].data.reply)
             /\ UNCHANGED <<API_KEYS, currentApiKeyIndex, handlers,
                            issued, lastWrite, responseCache>>]_vars

\* C10 amended: the same for non-stream requests only.
C10_FreshEntryServedNonStream ==
    [][\A s \in Slots, m \in CacheMessages, h \in CacheHistories :
          (/\ Validate(m, h) = "ok"
           /\ Fresh(responseCache, getCacheKey(m.v, LimitHistory(h.items)),
                    now)
           /\ ChatArrive(s, m, h, FALSE))
          => /\ AnsweredFromCache(Req(m, h, FALSE),
                    responseCache[getCacheKey(m.v,
                        LimitHistory(h.items))].data.reply)
             /\ UNCHANGED <<API_KEYS, currentApiKeyIndex, handlers,
                            issued, lastWrite, responseCache>>]_vars

\* a non-stream request was answered from the cache after a credential
\* had been handed out, and the cursor still stands where that left it
C10_Witness ==
    /\ Succeeded(lastResp)
    /\ lastResp.fromCache
    /\ lastResp.sync
    /\ ~lastResp.req.stream
    /\ lastResp.reply # <<>>
    /\ currentApiKeyIndex = 1
    /\ \A s \in Slots : handlers[s].pc = "idle"

-----------------------------------------------------------------------------
(* Properties of the error mapping, checked under SpecUpstream *)

\* C4 as claimed: when the external call of a request, stream or not,
\* fails with a message containing "quota", the answer is 429 with code
\* QUOTA_EXCEEDED.
C4_QuotaGives429 ==
    [][\A s \in Slots, e \in UpstreamErrors :
          (Includes(e, "quota")
              /\ (SendMessageThrows(s, e) \/ StreamThrows(s, e)))
          => /\ lastResp'.status = 429
             /\ lastResp'.code = "QUOTA_EXCEEDED"]_vars

\* C4 amended: the same for a non-stream request and a message that
\* contains neither "API_KEY" nor "API key".
C4_QuotaGives429NonStream ==
    [][\A s \in Slots, e \in UpstreamErrors :
          (/\ Includes(e, "quota")
           /\ ~Includes(e, "API_KEY") /\ ~Includes(e, "API key")
           /\ SendMessageThrows(s, e))
          => /\ lastResp'.seq = lastResp.seq + 1
             /\ lastResp'.req = handlers[s].req
             /\ lastResp'.status = 429
             /\ lastResp'.code = "QUOTA_EXCEEDED"]_vars

\* a non-stream request came back from the external API with 429
C4_Witness ==
    /\ lastResp.seq > 0
    /\ ~lastResp.sync
    /\ ~lastResp.req.stream
    /\ lastResp.status = 429
    /\ lastResp.code = "QUOTA_EXCEEDED"

-----------------------------------------------------------------------------
(* Properties of the write to the cache, checked under SpecCache *)

\* the cache key of a request that passed validation
KeyOf(req) == getCacheKey(req.message.v, LimitHistory(req.history.items))

\* the step completes a reply of the external API that carries text
RepliedByApi ==
    /\ lastResp'.seq = lastResp.seq + 1
    /\ Succeeded(lastResp')
    /\ ~lastResp'.fromCache
    /\ ReplyText(lastResp') # <<>>

-----------------------------------------------------------------------------
(* Properties of the streamed body, checked under SpecUpstream *)

\* the chunks that carry text, in the order they were delivered
NonEmptyChunks(received) == SelectSeq(received, LAMBDA c : c # <<>>)

\* the concatenation of a sequence of texts
RECURSIVE Concat(_)
Concat(texts) ==
    IF texts = <<>> THEN <<>> ELSE Head(texts) \o Concat(Tail(texts))

\* the body the claim describes for a stream that delivered these chunks
BodyOf(received) ==
    [i \in 1..Len(NonEmptyChunks(received)) |->
        Chunk(NonEmptyChunks(received)[i])]
    \o <<Marker, Metadata(Concat(NonEmptyChunks(received)))>>

\* C12: when the upstream stream of a streamed request ends without error,
\* the body sent is the non-empty chunks in the order they arrived, then
\* the marker once, then the metadata whose parts are the concatenation of
\* those chunks; the response is then ended, and a completed response is
\* never written to again.
C12_StreamedBodyInOrder ==
    [][/\ \A s \in Slots :
              StreamEnds(s) =>
                  /\ lastResp'.seq = lastResp.seq + 1
                  /\ lastResp'.req = handlers[s].req
                  /\ lastResp'.status = 200
                  /\ lastResp'.body = BodyOf(handlers[s].received)
                  /\ Cardinality({i \in 1..Len(lastResp'.body) :
                         lastResp'.body[i].kind = "marker"}) = 1
                  /\ handlers'[s] = Idle
       /\ lastResp'.seq = lastResp.seq => lastResp' = lastResp]_vars

\* a stream that delivered the text "B" and then the text "A" was completed
C12_Witness ==
    /\ lastResp.req.stream
    /\ lastResp.body = <<Chunk(ReplyB), Chunk(ReplyA), Marker,
                         Metadata(ReplyB \o ReplyA)>>

-----------------------------------------------------------------------------
(* Properties of the handler as a whole, checked under SpecValidation *)

\* C13: no chat request takes more than one credential or calls the
\* external API more than once: a request answered at once (a validation
\* error or a cache hit) takes none, and the cursor moves only in the step
\* in which a request first goes to the external API, never when a request
\* is resumed from its await, whether the call succeeded or failed.
C13_NeverRetried ==
    [][/\ \A s \in Slots :
              /\ handlers'[s].keysTaken <= 1
              /\ handlers'[s].apiCalls <= 1
              /\ (handlers[s].pc # "idle" /\ handlers'[s].pc # "idle") =>
                     /\ handlers'[s].apiKey = handlers[s].apiKey
                     /\ handlers'[s].req = handlers[s].req
       /\ currentApiKeyIndex' # currentApiKeyIndex =>
              \E s \in Slots : /\ handlers[s].pc = "idle"
                                /\ handlers'[s].pc # "idle"
                                /\ handlers'[s].keysTaken = 1
       /\ (lastResp'.seq = lastResp.seq + 1 /\ lastResp'.sync) =>
              UNCHANGED <<currentApiKeyIndex, handlers, issued>>]_vars

\* the only request so far failed at the external API and was answered,
\* and one credential of the two has been taken
C13_Witness ==
    /\ lastResp.seq = 1
    /\ ~lastResp.sync
    /\ lastResp.status = 429
    /\ \A s \in Slots : handlers[s].pc = "idle"
    /\ currentApiKeyIndex = 1

-----------------------------------------------------------------------------
(* Properties of the error mapping of single-shot calls, checked under
   SpecUpstream *)

\* the rules of the claim, in its order: the fragments that trigger a rule
\* and the answer it gives; the last rule has no trigger
ErrorRules ==
    << [any |-> {"API_KEY", "API key"}, status |-> 401,
        code |-> "API_KEY_ERROR"],
       [any |-> {"quota", "QUOTA_EXCEEDED"}, status |-> 429,
        code |-> "QUOTA_EXCEEDED"],
       [any |-> {"safety", "SAFETY"}, status |-> 400,
        code |-> "SAFETY_FILTER"],
       [any |-> {"400"}, status |-> 400, code |-> "BAD_REQUEST"],
       [any |-> {}, status |-> 500, code |-> "INTERNAL_ERROR"] >>

\* rule i applies to the error
RuleMatches(i, e) ==
    \/ i = Len(ErrorRules)
    \/ /\ e.hasMessage
       /\ \E j \in 1..Len(e.message) : e.message[j] \in ErrorRules[i].any

\* the first rule that applies
FirstRule(e) ==
    CHOOSE i \in 1..Len(ErrorRules) :
        RuleMatches(i, e) /\ \A j \in 1..(i - 1) : ~RuleMatches(j, e)

\* C14: a failure of the single-shot external call is answered exactly
\* once, with the status and code of the first rule that matches its
\* message: API_KEY or API key gives 401 API_KEY_ERROR, quota or
\* QUOTA_EXCEEDED 429 QUOTA_EXCEEDED, safety or SAFETY 400 SAFETY_FILTER,
\* 400 gives 400 BAD_REQUEST, anything else or no message 500
\* INTERNAL_ERROR.
C14_FirstMatchingRule ==
    [][\A s \in Slots, e \in UpstreamErrors :
          SendMessageThrows(s, e) =>
              /\ lastResp'.seq = lastResp.seq + 1
              /\ lastResp'.req = handlers[s].req
              /\ lastResp'.status = ErrorRules[FirstRule(e)].status
              /\ lastResp'.code = ErrorRules[FirstRule(e)].code
              /\ handlers'[s] = Idle]_vars

\* a single-shot call failed and was answered by the safety rule, which
\* only a message with "safety" or "SAFETY" and without the fragments of
\* the two rules before it reaches
C14_Witness ==
    /\ lastResp.seq > 0
    /\ ~lastResp.sync
    /\ ~lastResp.req.stream
    /\ lastResp.status = 400
    /\ lastResp.code = "SAFETY_FILTER"

-----------------------------------------------------------------------------
(* Properties of the cache lookup, checked under SpecCache *)

\* C15: looking an entry up never changes the cache, whether the entry is
\* fresh, stale or missing: the arrival of a request leaves the map as it
\* is, an entry keeps its timestamp until setCache writes its key again, a
\* hit is served only from an entry younger than CACHE_TTL, and no key
\* ever leaves the map.
C15_LookupReadOnly ==
    [][/\ \A s \in Slots, m \in CacheMessages, h \in CacheHistories,
             st \in BOOLEAN :
              ChatArrive(s, m, h, st) => responseCache' = responseCache
       /\ DOMAIN responseCache \subseteq DOMAIN responseCache'
       /\ \A k \in DOMAIN responseCache :
              responseCache'[k] # responseCache[k] =>
                  /\ lastStore'.set
                  /\ lastStore'.key = k
                  /\ lastStore'.t = now
                  /\ responseCache'[k].timestamp = now
                  /\ \E s \in Slots : handlers[s].pc = "awaitSend"
                                      /\ handlers'[s].pc = "idle"
       /\ (lastResp'.seq = lastResp.seq + 1 /\ lastResp'.fromCache) =>
              /\ KeyOf(lastResp'.req) \in DOMAIN responseCache
              /\ now - responseCache[KeyOf(lastResp'.req)].timestamp < 300000
              /\ responseCache'[KeyOf(lastResp'.req)].timestamp =
                     responseCache[KeyOf(lastResp'.req)].timestamp]_vars

\* an entry was served some time after it was stored and still carries
\* the time of its storing
C15_Witness ==
    /\ lastResp.seq > 0
    /\ lastResp.fromCache
    /\ KeyOf(lastResp.req) \in DOMAIN responseCache
    /\ responseCache[KeyOf(lastResp.req)].timestamp < lastResp.time
    /\ lastResp.time = now

-----------------------------------------------------------------------------
(* Properties of the cache key's history, checked under SpecHistory *)

\* the last five entries of a history
LastFive(h) == SliceLast(h.items, 5)

\* C16: when a non-stream request has just been answered by the external
\* API and a non-stream request with the same message arrives within the
\* TTL whose history has the same last five entries, whatever its earlier
\* entries, it is given the first one's reply from the cache; requests
\* whose last five entries differ have different keys, and one that
\* follows the only request so far is not answered from the cache.
C16_KeyedByLastFiveTurns ==
    [][\A s \in Slots, h1 \in HistoryHistories, h2 \in HistoryHistories :
          (/\ Succeeded(lastResp)
           /\ ~lastResp.fromCache
           /\ lastResp.req = Req(hi, h1, FALSE)
           /\ now - lastResp.time < 300000
           /\ ChatArrive(s, hi, h2, FALSE))
          => /\ LastFive(h1) = LastFive(h2) =>
                    /\ KeyOf(Req(hi, h1, FALSE)) = KeyOf(Req(hi, h2, FALSE))
                    /\ AnsweredFromCache(Req(hi, h2, FALSE),
                                         ReplyText(lastResp))
             /\ LastFive(h1) # LastFive(h2) =>
                    /\ KeyOf(Req(hi, h1, FALSE)) # KeyOf(Req(hi, h2, FALSE))
                    /\ lastResp.seq = 1 =>
                           /\ lastResp' = lastResp
                           /\ handlers'[s].pc = "awaitSend"]_vars

\* a request was answered from the entry that a request with another
\* history, equal in its last five entries, had stored
C16_Witness ==
    /\ lastResp.seq > 0
    /\ lastResp.fromCache
    /\ lastStore.set
    /\ lastStore.req.history # lastResp.req.history
    /\ Len(lastStore.req.history.items) = Len(lastResp.req.history.items)
    /\ lastStore.key = KeyOf(lastResp.req)
    /\ lastResp.reply = lastStore.data.reply

-----------------------------------------------------------------------------
(* Properties of overlapping requests, checked under SpecConcurrent *)

-----------------------------------------------------------------------------
(* Properties of the chat routes, checked under SpecRoutes *)

\* C18: every request to GET or POST /api/doctor-chat, whatever its
\* inputs and however the external call ends, is eventually given one
\* completed response: a request answered in the step it arrives in gets
\* exactly one, and a request that is not is answered later, once.
C18_EveryRequestAnswered ==
    /\ [][\A s \in Slots :
             (handlers[s].pc = "idle" /\ handlers'[s] = handlers[s]) =>
                 lastResp'.seq \in {lastResp.seq, lastResp.seq + 1}]_vars
    /\ [][\A s \in Slots :
             (handlers[s].pc # "idle" /\ handlers'[s].pc = "idle") =>
                 /\ lastResp'.seq = lastResp.seq + 1
                 /\ lastResp'.req = handlers[s].req]_vars
    /\ \A s \in Slots :
           (handlers[s].pc # "idle") ~> (handlers[s].pc = "idle")

-----------------------------------------------------------------------------
(* Properties of license deletion, checked under Spec *)

\* C19: when DELETE /api/licenses/:key removes, from a pool of two or more
\* with the cursor in range, a credential other than the one at the
\* cursor, the credential the next getNextApiKey returns is the one it
\* would have returned without the deletion.
C19_DeleteKeepsNextCredential ==
    [][\A k \in LicenseKeys :
          (/\ Len(API_KEYS) >= 2
           /\ currentApiKeyIndex >= 0
           /\ currentApiKeyIndex < Len(API_KEYS)
           /\ IndexOf(API_KEYS, k) # -1
           /\ k # API_KEYS[currentApiKeyIndex + 1]
           /\ DeleteLicense(k))
          => KeyAt(API_KEYS', currentApiKeyIndex') =
                 KeyAt(API_KEYS, currentApiKeyIndex)]_vars

=============================================================================
